---- MODULE Spec2Model ----
(***************************************************************************)
(* dynamic-pooling: a lock-free object pool.                               *)
(*                                                                         *)
(*   Pool<T>    = { inner: Arc<PoolInner<T>> }      (src/src/pool.rs)      *)
(*   PoolInner  = crossbeam_queue::ArrayQueue<T>    (bounded MPMC queue)   *)
(*   Pooled<T>  = { pool_inner: Weak<PoolInner<T>>, object: Option<T> }    *)
(*                                                  (src/src/object.rs)    *)
(*   Reset      = clear, keep the allocation        (src/src/reset.rs)     *)
(*                                                                         *)
(* T is modelled as String: its text and its reserved capacity, plus an    *)
(* identity used to follow one object through the pool.  Every atomic      *)
(* access to shared memory (a queue push or pop, a change of the strong or *)
(* weak count of the Arc) is one step, so that the steps of concurrent     *)
(* calls interleave as the threads of the program do.                      *)
(***************************************************************************)
EXTENDS Naturals, Integers, Sequences, FiniteSets, TLC

(* Bounds of the model. *)
MaxCap == 1
MaxHandles == 2
MaxWrappers == 2
MaxObjs == 2

Handles == 1..MaxHandles
Wrappers == 1..MaxWrappers
ObjIds == 1..MaxObjs
StoreIds == {1, 2}
\* The texts of the Strings a caller attaches (the default, empty one and a written
\* one), and those a holder writes.
Contents == {"", "hello"}
Written == {"hello"}

VARIABLES
    handles,    \* the Pool values alive: handles[h] is the store Pool h's `inner` points to
    stores,     \* the heap of ArcInner<ArrayQueue<T>>: strong, weak, cap, queue
    wrappers,   \* the Pooled values and the calls in progress on them
    nextObj,    \* identity of the next T constructed (Default::default or caller's)
    detached,   \* identities of the T values handed to callers by Pooled::detach
    panicked,   \* the calls that panicked
    last,       \* the call the step just taken completed, where its result leaves no
                \* other trace: "try_take_none", "get_pool_none", "get_pool_some",
                \* "attach"; else "-"
    script      \* the program of a single thread and its position in it, when the
                \* calls are those of one scripted thread; no program: any thread, any call

vars == <<handles, stores, wrappers, nextObj, detached, panicked, last, script>>

None == <<>>
Some(x) == <<x>>

(* ------------------------------------------------------------------ T *)

\* The length of a text, in bytes.
StrLen(t) == IF t = "" THEN 0 ELSE 5

\* A String the caller built with the text t.
String(id, t) == [id |-> id, text |-> t, cap |-> StrLen(t)]

\* String::default(): the empty string, nothing allocated.
Default(id) == String(id, "")

\* Writing the text t through DerefMut: the buffer grows when it has to.
write(o, t) == [o EXCEPT !.text = t,
                         !.cap = IF StrLen(t) > o.cap THEN StrLen(t) ELSE o.cap]

\* What a reset value looks like to its user: equal to String::default().
IsReset(o) == o.text = ""

resetKeepsContents(o) == o

\* impl Reset for String: self.clear() - the text is emptied, the buffer is kept.
reset(o) == [o EXCEPT !.text = ""]

(* ------------------------------------------------- ArrayQueue<T> calls *)

NoStore == [allocated |-> FALSE, strong |-> 0, weak |-> 0, cap |-> 0, queue |-> <<>>]

\* ArrayQueue::pop as called by take and try_take: the oldest element, if any.
pop(q) == IF q = <<>> THEN [val |-> None, queue |-> q]
          ELSE [val |-> Some(Head(q)), queue |-> Tail(q)]

\* take that constructs a new T::default() whatever the pop returned.
always_default(opt, id) == Default(id)

\* Option::unwrap_or_default in take: the popped value, or a new T::default().
unwrap_or_default(opt, id) == IF opt = None THEN Default(id) ELSE opt[1]

\* ArrayQueue::force_push in the place of push: a full queue gives up its oldest element.
force_push(q, cap, o) == IF Len(q) < cap THEN [ok |-> TRUE, queue |-> Append(q, o)]
                         ELSE [ok |-> TRUE, queue |-> Append(Tail(q), o)]

\* ArrayQueue::push as called by Drop: Err(value) when the queue is full.
push(q, cap, o) == IF Len(q) < cap THEN [ok |-> TRUE, queue |-> Append(q, o)]
                   ELSE [ok |-> FALSE, queue |-> q]

(* ------------------------------------------------------ introspection *)

Live(h) == h <= Len(handles)
inner(h) == stores[handles[h]]

len(h) == Len(inner(h).queue)
capacity(h) == inner(h).cap
is_empty(h) == inner(h).queue = <<>>
is_full(h) == Len(inner(h).queue) = inner(h).cap

\* spare_capacity that subtracts the values in use instead of the values stored.
spare_capacity_in_use(h) == capacity(h) - inner(h).weak

\* Pool::spare_capacity: self.capacity() - self.len(); below 0 is a usize underflow.
spare_capacity(h) == capacity(h) - len(h)

\* in_use with Arc::strong_count in the place of Arc::weak_count.
in_use_strong_count(h) == inner(h).strong

\* Pool::in_use: Arc::weak_count(&self.inner).
in_use(h) == inner(h).weak

(* ------------------------------------------------------------- helpers *)

\* A Pooled and the call in progress on it.  pc: where that call stands; object and
\* pool_inner: the fields of Pooled; op: the call that is making it;
\* ret: the value a detach is about to return.
FreeWrapper == [pc |-> "free", object |-> None, pool_inner |-> 0,
                op |-> "-", ret |-> None]

\* The Pool values on store s.
PoolsOn(s) == {h \in Handles : Live(h) /\ handles[h] = s}

\* take and try_take borrow their &Pool until they return, and a borrowed Pool
\* cannot be dropped.  The Pools of one store are interchangeable, so a call in
\* progress on a store pins its last Pool.
Borrowed(h) ==
    /\ \E w \in Wrappers : wrappers[w].pc = "new" /\ wrappers[w].pool_inner = handles[h]
    /\ \A g \in Handles \ {h} : Live(g) => handles[g] # handles[h]

\* Dropping one Arc: the last one destroys the ArrayQueue and what it holds.
ArcDrop(st) == IF st.strong = 1 THEN [st EXCEPT !.strong = 0, !.queue = <<>>]
               ELSE [st EXCEPT !.strong = st.strong - 1]

\* No scripted thread: the calls come from any number of threads in any order.
NoScript == [prog |-> <<>>, pos |-> 1]

\* A step of a scripted thread moves it to the next line of its program.
Advance(sc) == IF sc.prog = <<>> THEN sc ELSE [sc EXCEPT !.pos = @ + 1]

Init ==
    /\ handles = <<>>
    /\ stores = [s \in StoreIds |-> NoStore]
    /\ wrappers = [w \in Wrappers |-> FreeWrapper]
    /\ nextObj = 1
    /\ detached = {}
    /\ panicked = {}
    /\ last = "-"
    /\ script = NoScript

(* ---------------------------------------------------------------- Pool *)

\* The Pool values without the h-th.
Without(hs, h) == [i \in 1..(Len(hs) - 1) |-> IF i < h THEN hs[i] ELSE hs[i + 1]]
FreeWrappers == {w \in Wrappers : wrappers[w].pc = "free"}
NewWrapper == CHOOSE w \in FreeWrappers : \A v \in FreeWrappers : w <= v
FreeStores == {s \in StoreIds : ~stores[s].allocated}
NewStore == CHOOSE s \in FreeStores : \A t \in FreeStores : s <= t

\* Pool::new without the assert: a capacity of 0 makes a pool like any other.
NewUnchecked(c) ==
    /\ FreeStores = StoreIds
    /\ panicked = {}
    /\ stores' = [stores EXCEPT ![NewStore] =
            [allocated |-> TRUE, strong |-> 1, weak |-> 0, cap |-> c, queue |-> <<>>]]
    /\ handles' = Append(handles, NewStore)
    /\ last' = "-"
    /\ UNCHANGED <<wrappers, nextObj, detached, panicked>>
    /\ script' = Advance(script)

\* Pool::new(capacity): assert!(capacity > 0), then Arc::new(ArrayQueue::new(capacity)).
New(c) ==
    /\ FreeStores = StoreIds
    /\ panicked = {}
    /\ IF c > 0
       THEN /\ stores' = [stores EXCEPT ![NewStore] =
                    [allocated |-> TRUE, strong |-> 1, weak |-> 0, cap |-> c, queue |-> <<>>]]
            /\ handles' = Append(handles, NewStore)
            /\ UNCHANGED panicked
       ELSE /\ panicked' = panicked \cup {"new"}
            /\ UNCHANGED <<stores, handles>>
    /\ last' = "-"
    /\ UNCHANGED <<wrappers, nextObj, detached>>
    /\ script' = Advance(script)

\* Clone that copies the store: Arc::new(ArrayQueue::new(self.capacity())).
CloneDeep(h) ==
    /\ Live(h)
    /\ Len(handles) < MaxHandles
    /\ FreeStores # {}
    /\ handles' = Append(handles, NewStore)
    /\ stores' = [stores EXCEPT ![NewStore] =
            [allocated |-> TRUE, strong |-> 1, weak |-> 0, cap |-> inner(h).cap,
             queue |-> <<>>]]
    /\ last' = "-"
    /\ UNCHANGED <<wrappers, nextObj, detached, panicked>>
    /\ script' = Advance(script)

\* Clone for Pool: Arc::clone(&self.inner) - one more strong reference to the same store.
Clone(h) ==
    /\ Live(h)
    /\ Len(handles) < MaxHandles
    /\ handles' = Append(handles, handles[h])
    /\ stores' = [stores EXCEPT ![handles[h]].strong = @ + 1]
    /\ last' = "-"
    /\ UNCHANGED <<wrappers, nextObj, detached, panicked>>
    /\ script' = Advance(script)

\* Dropping a Pool drops its Arc; the last Arc destroys the queue and its contents.
DropPool(h) ==
    /\ Live(h)
    /\ ~Borrowed(h)
    /\ handles' = Without(handles, h)
    /\ stores' = [stores EXCEPT ![handles[h]] = ArcDrop(@)]
    /\ last' = "-"
    /\ UNCHANGED <<wrappers, nextObj, detached, panicked>>
    /\ script' = Advance(script)

\* take that reads the oldest stored value and leaves it in the queue.
TakePeek(h) ==
    /\ Live(h)
    /\ FreeWrappers # {}
    /\ LET r == pop(inner(h).queue)
           object == unwrap_or_default(r.val, nextObj) IN
       /\ object.id = nextObj => nextObj <= MaxObjs
       /\ wrappers' = [wrappers EXCEPT ![NewWrapper] =
               [FreeWrapper EXCEPT !.pc = "new", !.object = Some(object),
                                   !.pool_inner = handles[h], !.op = "take"]]
       /\ nextObj' = IF object.id = nextObj THEN nextObj + 1 ELSE nextObj
    /\ last' = "-"
    /\ UNCHANGED <<handles, stores, detached, panicked>>
    /\ script' = Advance(script)

\* Pool::take, first half: self.inner.pop().unwrap_or_default().
TakePop(h) ==
    /\ Live(h)
    /\ FreeWrappers # {}
    /\ LET r == pop(inner(h).queue)
           object == unwrap_or_default(r.val, nextObj) IN
       /\ object.id = nextObj => nextObj <= MaxObjs
       /\ stores' = [stores EXCEPT ![handles[h]].queue = r.queue]
       /\ wrappers' = [wrappers EXCEPT ![NewWrapper] =
               [FreeWrapper EXCEPT !.pc = "new", !.object = Some(object),
                                   !.pool_inner = handles[h], !.op = "take"]]
       /\ nextObj' = IF object.id = nextObj THEN nextObj + 1 ELSE nextObj
    /\ last' = "-"
    /\ UNCHANGED <<handles, detached, panicked>>
    /\ script' = Advance(script)

\* try_take written as take: self.inner.pop().unwrap_or_default().
TryTakeAllocates(h) ==
    /\ Live(h)
    /\ FreeWrappers # {}
    /\ LET r == pop(inner(h).queue)
           object == unwrap_or_default(r.val, nextObj) IN
       /\ object.id = nextObj => nextObj <= MaxObjs
       /\ stores' = [stores EXCEPT ![handles[h]].queue = r.queue]
       /\ wrappers' = [wrappers EXCEPT ![NewWrapper] =
               [FreeWrapper EXCEPT !.pc = "new", !.object = Some(object),
                                   !.pool_inner = handles[h], !.op = "try_take"]]
       /\ nextObj' = IF object.id = nextObj THEN nextObj + 1 ELSE nextObj
    /\ last' = "-"
    /\ UNCHANGED <<handles, detached, panicked>>
    /\ script' = Advance(script)

\* Pool::try_take, first half: self.inner.pop(); a None is returned as it is.
TryTakePop(h) ==
    /\ Live(h)
    /\ FreeWrappers # {}
    /\ LET r == pop(inner(h).queue) IN
       IF r.val # None
       THEN /\ stores' = [stores EXCEPT ![handles[h]].queue = r.queue]
            /\ wrappers' = [wrappers EXCEPT ![NewWrapper] =
                    [FreeWrapper EXCEPT !.pc = "new", !.object = r.val,
                                        !.pool_inner = handles[h], !.op = "try_take"]]
            /\ last' = "-"
       ELSE /\ last' = "try_take_none"
            /\ UNCHANGED <<stores, wrappers>>
    /\ UNCHANGED <<handles, nextObj, detached, panicked>>
    /\ script' = Advance(script)

\* Pooled::new that keeps an Arc (Arc::clone) beside the Weak: a strong reference.
PooledNewStrong(w) ==
    /\ wrappers[w].pc = "new"
    /\ stores' = [stores EXCEPT ![wrappers[w].pool_inner].weak = @ + 1,
                                ![wrappers[w].pool_inner].strong = @ + 1]
    /\ wrappers' = [wrappers EXCEPT ![w].pc = "held", ![w].op = "-"]
    /\ last' = "-"
    /\ UNCHANGED <<handles, nextObj, detached, panicked>>
    /\ script' = Advance(script)

\* Pooled::new(object, pool): Arc::downgrade(&pool.inner) - one more weak reference.
PooledNew(w) ==
    /\ wrappers[w].pc = "new"
    /\ stores' = [stores EXCEPT ![wrappers[w].pool_inner].weak = @ + 1]
    /\ wrappers' = [wrappers EXCEPT ![w].pc = "held", ![w].op = "-"]
    /\ last' = "-"
    /\ UNCHANGED <<handles, nextObj, detached, panicked>>
    /\ script' = Advance(script)

\* attach written as take() followed by a write of the caller's value over the
\* one taken: a stored value is popped and lost.
AttachViaTake(h, t) ==
    /\ Live(h)
    /\ FreeWrappers # {}
    /\ nextObj <= MaxObjs
    /\ stores' = [stores EXCEPT ![handles[h]].weak = @ + 1,
                                ![handles[h]].queue = pop(@).queue]
    /\ wrappers' = [wrappers EXCEPT ![NewWrapper] =
            [FreeWrapper EXCEPT !.pc = "held", !.pool_inner = handles[h],
                                !.object = Some(String(nextObj, t))]]
    /\ nextObj' = nextObj + 1
    /\ last' = "attach"
    /\ UNCHANGED <<handles, detached, panicked>>
    /\ script' = Advance(script)

\* Pool::attach(object): Pooled::new(object, self) on a value of the caller's.
Attach(h, t) ==
    /\ Live(h)
    /\ FreeWrappers # {}
    /\ nextObj <= MaxObjs
    /\ stores' = [stores EXCEPT ![handles[h]].weak = @ + 1]
    /\ wrappers' = [wrappers EXCEPT ![NewWrapper] =
            [FreeWrapper EXCEPT !.pc = "held", !.pool_inner = handles[h],
                                !.object = Some(String(nextObj, t))]]
    /\ nextObj' = nextObj + 1
    /\ last' = "attach"
    /\ UNCHANGED <<handles, detached, panicked>>
    /\ script' = Advance(script)

(* -------------------------------------------------------------- Pooled *)

\* DerefMut for Pooled: the holder writes to the value.
Mutate(w, t) ==
    /\ wrappers[w].pc = "held"
    /\ wrappers[w].object # None
    /\ wrappers[w].object[1].text # t
    /\ wrappers' = [wrappers EXCEPT ![w].object = Some(write(@[1], t))]
    /\ last' = "-"
    /\ UNCHANGED <<handles, stores, nextObj, detached, panicked>>
    /\ script' = Advance(script)

\* get_pool with Some(Pool { inner: self.pool_inner.upgrade().unwrap() }).
GetPoolUnwrap(w) ==
    /\ wrappers[w].pc = "held"
    /\ Len(handles) < MaxHandles
    /\ LET s == wrappers[w].pool_inner IN
       IF stores[s].strong > 0
       THEN /\ stores' = [stores EXCEPT ![s].strong = @ + 1]
            /\ handles' = Append(handles, s)
            /\ last' = "get_pool_some"
            /\ UNCHANGED panicked
       ELSE /\ panicked' = panicked \cup {"get_pool"}
            /\ last' = "-"
            /\ UNCHANGED <<stores, handles>>
    /\ UNCHANGED <<wrappers, nextObj, detached>>
    /\ script' = Advance(script)

\* Pooled::get_pool: self.pool_inner.upgrade().map(|inner| Pool { inner }).
GetPool(w) ==
    /\ wrappers[w].pc = "held"
    /\ Len(handles) < MaxHandles
    /\ LET s == wrappers[w].pool_inner IN
       IF stores[s].strong > 0
       THEN /\ stores' = [stores EXCEPT ![s].strong = @ + 1]
            /\ handles' = Append(handles, s)
            /\ last' = "get_pool_some"
       ELSE /\ last' = "get_pool_none"
            /\ UNCHANGED <<stores, handles>>
    /\ UNCHANGED <<wrappers, nextObj, detached, panicked>>
    /\ script' = Advance(script)

\* detach that copies the value out (this.object.clone()) and leaves it in place.
DetachKeepsObject(w) ==
    /\ wrappers[w].pc = "held"
    /\ wrappers' = [wrappers EXCEPT ![w].pc = "detaching", ![w].ret = wrappers[w].object]
    /\ last' = "-"
    /\ UNCHANGED <<handles, stores, nextObj, detached, panicked>>
    /\ script' = Advance(script)

\* Pooled::detach(this): this.object.take().expect("always some"); `this` is then
\* dropped (Drop::drop below, with object == None) before the value is returned.
Detach(w) ==
    /\ wrappers[w].pc = "held"
    /\ wrappers' = [wrappers EXCEPT ![w].pc = "detaching", ![w].object = None,
                                    ![w].ret = wrappers[w].object]
    /\ last' = "-"
    /\ UNCHANGED <<handles, stores, nextObj, detached, panicked>>
    /\ script' = Advance(script)

\* Drop::drop that moves the Weak out of the Pooled to upgrade it (mem::take) and
\* drops it at once: the Pooled stops counting before its value is pushed.
DropUpgradeConsumesWeak(w) ==
    /\ wrappers[w].pc \in {"held", "detaching"}
    /\ LET s == wrappers[w].pool_inner IN
       IF stores[s].strong > 0
       THEN /\ stores' = [stores EXCEPT ![s].strong = @ + 1, ![s].weak = @ - 1]
            /\ wrappers' = [wrappers EXCEPT ![w].pc = "upgraded"]
       ELSE /\ wrappers' = [wrappers EXCEPT ![w].pc = "fields"]
            /\ stores' = [stores EXCEPT ![s].weak = @ - 1]
    /\ last' = "-"
    /\ UNCHANGED <<handles, nextObj, detached, panicked>>
    /\ script' = Advance(script)

\* Drop::drop with self.pool_inner.upgrade().expect(..): a dead store is an error.
DropUpgradeExpect(w) ==
    /\ wrappers[w].pc \in {"held", "detaching"}
    /\ LET s == wrappers[w].pool_inner IN
       IF stores[s].strong > 0
       THEN /\ stores' = [stores EXCEPT ![s].strong = @ + 1]
            /\ wrappers' = [wrappers EXCEPT ![w].pc = "upgraded"]
            /\ UNCHANGED panicked
       ELSE /\ wrappers' = [wrappers EXCEPT ![w].pc = "fields"]
            /\ panicked' = panicked \cup {"drop"}
            /\ UNCHANGED stores
    /\ last' = "-"
    /\ UNCHANGED <<handles, nextObj, detached>>
    /\ script' = Advance(script)

\* Drop::drop, line 72: self.pool_inner.upgrade() - a temporary Arc if the store lives.
DropUpgrade(w) ==
    /\ wrappers[w].pc \in {"held", "detaching"}
    /\ LET s == wrappers[w].pool_inner IN
       IF stores[s].strong > 0
       THEN /\ stores' = [stores EXCEPT ![s].strong = @ + 1]
            /\ wrappers' = [wrappers EXCEPT ![w].pc = "upgraded"]
       ELSE /\ wrappers' = [wrappers EXCEPT ![w].pc = "fields"]
            /\ UNCHANGED stores
    /\ last' = "-"
    /\ UNCHANGED <<handles, nextObj, detached, panicked>>
    /\ script' = Advance(script)

\* Drop::drop that pushes a copy of the value (object.clone()) and leaves the
\* Option as it is.
DropReturnKeepsObject(w) ==
    /\ wrappers[w].pc = "upgraded"
    /\ LET s == wrappers[w].pool_inner IN
       IF wrappers[w].object # None
       THEN LET r == push(stores[s].queue, stores[s].cap, reset(wrappers[w].object[1])) IN
            stores' = [stores EXCEPT ![s].queue = r.queue]
       ELSE UNCHANGED stores
    /\ last' = "-"
    /\ wrappers' = [wrappers EXCEPT ![w].pc = "release"]
    /\ UNCHANGED <<handles, nextObj, detached, panicked>>
    /\ script' = Advance(script)

\* Drop::drop with a push that waits for a free slot instead of failing.
DropReturnBlocking(w) ==
    /\ wrappers[w].pc = "upgraded"
    /\ LET st == stores[wrappers[w].pool_inner] IN
       wrappers[w].object # None => Len(st.queue) < st.cap
    /\ LET s == wrappers[w].pool_inner IN
       IF wrappers[w].object # None
       THEN LET r == push(stores[s].queue, stores[s].cap, reset(wrappers[w].object[1])) IN
            stores' = [stores EXCEPT ![s].queue = r.queue]
       ELSE UNCHANGED stores
    /\ last' = "-"
    /\ wrappers' = [wrappers EXCEPT ![w].pc = "release", ![w].object = None]
    /\ UNCHANGED <<handles, nextObj, detached, panicked>>
    /\ script' = Advance(script)

\* Drop::drop that drops the value instead of pushing it.
DropReturnDiscards(w) ==
    /\ wrappers[w].pc = "upgraded"
    /\ last' = "-"
    /\ wrappers' = [wrappers EXCEPT ![w].pc = "release", ![w].object = None]
    /\ UNCHANGED <<handles, stores, nextObj, detached, panicked>>
    /\ script' = Advance(script)

\* Drop::drop with pool_inner.push(object).unwrap(): a full store is an error.
DropReturnUnwrap(w) ==
    /\ wrappers[w].pc = "upgraded"
    /\ LET s == wrappers[w].pool_inner IN
       IF wrappers[w].object # None
       THEN LET r == push(stores[s].queue, stores[s].cap, reset(wrappers[w].object[1])) IN
            /\ stores' = [stores EXCEPT ![s].queue = r.queue]
            /\ panicked' = IF r.ok THEN panicked ELSE panicked \cup {"drop"}
       ELSE UNCHANGED <<stores, panicked>>
    /\ last' = "-"
    /\ wrappers' = [wrappers EXCEPT ![w].pc = "release", ![w].object = None]
    /\ UNCHANGED <<handles, nextObj, detached>>
    /\ script' = Advance(script)

\* Drop::drop, lines 73-76: object.take(), object.reset(), let _ = pool_inner.push(object).
DropReturn(w) ==
    /\ wrappers[w].pc = "upgraded"
    /\ LET s == wrappers[w].pool_inner IN
       IF wrappers[w].object # None
       THEN LET r == push(stores[s].queue, stores[s].cap, reset(wrappers[w].object[1])) IN
            stores' = [stores EXCEPT ![s].queue = r.queue]
       ELSE UNCHANGED stores
    /\ last' = "-"
    /\ wrappers' = [wrappers EXCEPT ![w].pc = "release", ![w].object = None]
    /\ UNCHANGED <<handles, nextObj, detached, panicked>>
    /\ script' = Advance(script)

\* Drop::drop, line 77: the temporary Arc goes out of scope.
DropRelease(w) ==
    /\ wrappers[w].pc = "release"
    /\ stores' = [stores EXCEPT ![wrappers[w].pool_inner] = ArcDrop(@)]
    /\ wrappers' = [wrappers EXCEPT ![w].pc = "fields"]
    /\ last' = "-"
    /\ UNCHANGED <<handles, nextObj, detached, panicked>>
    /\ script' = Advance(script)

\* A Pooled whose Weak is never dropped (mem::forget of the field).
DropFieldsKeepsWeak(w) ==
    /\ wrappers[w].pc = "fields"
    /\ detached' = IF wrappers[w].ret # None
                   THEN detached \cup {wrappers[w].ret[1].id} ELSE detached
    /\ wrappers' = [wrappers EXCEPT ![w] = FreeWrapper]
    /\ last' = "-"
    /\ UNCHANGED <<handles, stores, nextObj, panicked>>
    /\ script' = Advance(script)

\* After Drop::drop the fields are dropped: the Weak, then whatever object is left.
\* A detach returns its value once this is done.
DropFields(w) ==
    /\ wrappers[w].pc = "fields"
    /\ stores' = [stores EXCEPT ![wrappers[w].pool_inner].weak = @ - 1]
    /\ detached' = IF wrappers[w].ret # None
                   THEN detached \cup {wrappers[w].ret[1].id} ELSE detached
    /\ wrappers' = [wrappers EXCEPT ![w] = FreeWrapper]
    /\ last' = "-"
    /\ UNCHANGED <<handles, nextObj, panicked>>
    /\ script' = Advance(script)

Next ==
    \/ \E c \in 0..MaxCap : New(c)
    \/ \E h \in Handles : Clone(h)
    \/ \E h \in Handles : DropPool(h)
    \/ \E h \in Handles : TakePop(h)
    \/ \E h \in Handles : TryTakePop(h)
    \/ \E w \in Wrappers : PooledNew(w)
    \/ \E h \in Handles, t \in Contents : Attach(h, t)
    \/ \E w \in Wrappers, t \in Written : Mutate(w, t)
    \/ \E w \in Wrappers : GetPool(w)
    \/ \E w \in Wrappers : Detach(w)
    \/ \E w \in Wrappers : DropUpgrade(w)
    \/ \E w \in Wrappers : DropReturn(w)
    \/ \E w \in Wrappers : DropRelease(w)
    \/ \E w \in Wrappers : DropFields(w)

Spec == Init /\ [][Next]_vars

(* ------------------------------------------------------ fair scheduling *)

\* A call on Pooled w was started and has not returned: take or try_take between
\* the pop and Pooled::new, a detach, or a drop after its first step.
InProgress(w) == wrappers[w].pc \in {"new", "detaching", "upgraded", "release", "fields"}

\* The next step of the call in progress on Pooled w.
Continue(w) ==
    \/ PooledNew(w)
    \/ wrappers[w].pc = "detaching" /\ DropUpgrade(w)
    \/ DropReturn(w)
    \/ DropRelease(w)
    \/ DropFields(w)

\* Every thread that is inside a call is scheduled again; whether a thread makes
\* another call is up to it.
FairSpec == Spec /\ \A w \in Wrappers : WF_vars(Continue(w))

(* ------------------------------------------------------ scripted runs *)

\* The largest capacity of the pool a scripted program makes.
ScenarioCap == 3

\* The calls of a program, as the steps they take; a program is the steps of one
\* thread, or those of several in the order a schedule gives them.  h: the Pool
\* called; w: the Pooled the call makes or works on.
new(c) == << <<"New", c>> >>
take(h, w) == << <<"TakePop", h>>, <<"PooledNew", w>> >>
try_take_none(h) == << <<"TryTakePop", h>> >>
try_take_some(h, w) == << <<"TryTakePop", h>>, <<"PooledNew", w>> >>
mutate(w) == << <<"Mutate", w>> >>
drop(w) == << <<"DropUpgrade", w>>, <<"DropReturn", w>>,
              <<"DropRelease", w>>, <<"DropFields", w>> >>
\* The drop of a Pooled whose store is gone: the upgrade fails, the fields are dropped.
drop_gone(w) == << <<"DropUpgrade", w>>, <<"DropFields", w>> >>
drop_pool(h) == << <<"DropPool", h>> >>

\* let pool = Pool::<String>::new(2); let mut a = pool.take(); let b = pool.take();
\* a.push_str("hello"); drop(a); let c = pool.take();
TwoTaken == new(2) \o take(1, 1) \o take(1, 2)
OneReturned == TwoTaken \o mutate(1) \o drop(1)
ConcreteScenario == OneReturned \o take(1, 1)

\* let pool = Pool::new(1); try_take() is None; take and drop; try_take() is Some;
\* try_take() is None.
TryTakeScenario ==
    new(1) \o try_take_none(1) \o take(1, 1) \o drop(1) \o try_take_some(1, 1)
        \o try_take_none(1)

\* n times: let x = pool.take(); drop(x);
RECURSIVE Rounds(_)
Rounds(n) == IF n = 0 THEN <<>> ELSE take(1, 1) \o drop(1) \o Rounds(n - 1)
TakeDropRounds(c, n) == new(c) \o Rounds(n)

\* n values taken and held together (wrappers from..n), then dropped one by one.
RECURSIVE Takes(_, _)
Takes(from, n) == IF from > n THEN <<>> ELSE take(1, from) \o Takes(from + 1, n)
RECURSIVE Drops(_, _)
Drops(from, n) == IF from > n THEN <<>> ELSE drop(from) \o Drops(from + 1, n)
TakeAllDropAll(c, n) == new(c) \o Takes(1, n) \o Drops(1, n)

\* As many values as can be held together.
MaxHeld == IF MaxWrappers < MaxObjs THEN MaxWrappers ELSE MaxObjs

\* The ways the steps of two threads, a and b, can follow one another.
RECURSIVE Merges(_, _)
Merges(a, b) ==
    IF a = <<>> THEN {b}
    ELSE IF b = <<>> THEN {a}
    ELSE {<<Head(a)>> \o m : m \in Merges(Tail(a), b)}
            \cup {<<Head(b)>> \o m : m \in Merges(a, Tail(b))}

\* The Pooled values 1..k dropped by k threads, one each, at the same time; two at most.
ConcurrentDrops(k) ==
    IF k = 0 THEN {<<>>}
    ELSE IF k = 1 THEN {drop(1)}
    ELSE Merges(drop(1), drop(2))

\* What a store of capacity c holds after n values were pushed to it, none popped.
Returned(c, n) == IF n < c THEN n ELSE c

\* k + l values taken; the last l returned to the store; then the first k, all
\* holding their values, dropped concurrently.
Prepared(c, l, k) == new(c) \o Takes(1, k + l) \o Drops(k + 1, k + l)
DropSchedules(c, l, k) == {Prepared(c, l, k) \o m : m \in ConcurrentDrops(k)}

\* let a = pool.take(); drop(pool); drop(a);
PoolGone(c) == new(c) \o take(1, 1) \o drop_pool(1) \o drop_gone(1)

Programs ==
    {ConcreteScenario, TryTakeScenario}
        \cup {TakeDropRounds(c, n) : c \in 1..ScenarioCap, n \in 0..ScenarioCap}
        \cup {TakeAllDropAll(c, n) : c \in 1..ScenarioCap, n \in 0..MaxHeld}
        \cup {PoolGone(c) : c \in 1..ScenarioCap}
        \cup UNION {DropSchedules(c, lk[1], lk[2]) :
                        c \in 1..ScenarioCap,
                        lk \in {p \in (0..MaxHeld) \X (0..2) : p[1] + p[2] <= MaxHeld}}

\* The scripted thread is at a line that is the step a with the argument x.
At(a, x) == /\ script.pos <= Len(script.prog)
            /\ script.prog[script.pos] = <<a, x>>
\* The scripted thread has run the lines `lines` of its program, and no more.
After(lines) == /\ script.pos = Len(lines) + 1
                /\ SubSeq(script.prog, 1, Len(lines)) = lines
                /\ Len(lines) <= Len(script.prog)
\* The program has run to its end.
Done == script.prog # <<>> /\ script.pos = Len(script.prog) + 1

ScenarioInit ==
    /\ handles = <<>>
    /\ stores = [s \in StoreIds |-> NoStore]
    /\ wrappers = [w \in Wrappers |-> FreeWrapper]
    /\ nextObj = 1
    /\ detached = {}
    /\ panicked = {}
    /\ last = "-"
    /\ script \in {[prog |-> p, pos |-> 1] : p \in Programs}

RunNew(c) == At("New", c) /\ New(c)
RunDropPool(h) == At("DropPool", h) /\ DropPool(h)
RunTakePop(h) == At("TakePop", h) /\ TakePop(h)
RunTryTakePop(h) == At("TryTakePop", h) /\ TryTakePop(h)
RunPooledNew(w) == At("PooledNew", w) /\ PooledNew(w)
RunMutate(w) == At("Mutate", w) /\ Mutate(w, "hello")
RunDropUpgrade(w) == At("DropUpgrade", w) /\ DropUpgrade(w)
RunDropReturn(w) == At("DropReturn", w) /\ DropReturn(w)
RunDropRelease(w) == At("DropRelease", w) /\ DropRelease(w)
RunDropFields(w) == At("DropFields", w) /\ DropFields(w)

ScenarioNext ==
    \/ \E c \in 1..ScenarioCap : RunNew(c)
    \/ \E h \in Handles : RunDropPool(h)
    \/ \E h \in Handles : RunTakePop(h)
    \/ \E h \in Handles : RunTryTakePop(h)
    \/ \E w \in Wrappers : RunPooledNew(w)
    \/ \E w \in Wrappers : RunMutate(w)
    \/ \E w \in Wrappers : RunDropUpgrade(w)
    \/ \E w \in Wrappers : RunDropReturn(w)
    \/ \E w \in Wrappers : RunDropRelease(w)
    \/ \E w \in Wrappers : RunDropFields(w)

Scenario == ScenarioInit /\ [][ScenarioNext]_vars

(* ------------------------------------------------- where the objects are *)

QueueIds(q) == {q[i].id : i \in 1..Len(q)}
StoredIds == UNION {QueueIds(stores[s].queue) : s \in StoreIds}
HeldIds == {wrappers[w].object[1].id : w \in {v \in Wrappers : wrappers[v].object # None}}
RetIds == {wrappers[w].ret[1].id : w \in {v \in Wrappers : wrappers[v].ret # None}}
Created == 1..(nextObj - 1)
\* The values that were destroyed: constructed once, and nowhere any more.
Discarded == Created \ (StoredIds \cup HeldIds \cup RetIds \cup detached)

\* No call is in progress on any Pooled.
Quiescent == \A w \in Wrappers : wrappers[w].pc \in {"free", "held"}
\* The Pooled values of store s that were not dropped or detached.
Outstanding(s) == {w \in Wrappers : wrappers[w].pc = "held" /\ wrappers[w].pool_inner = s}

\* The steps of Drop::drop of Pooled w, as the state shows them.
DropBegins(w) == wrappers[w].pc = "held" /\ wrappers'[w].pc \in {"upgraded", "fields"}
DropReturns(w) == /\ wrappers[w].pc = "upgraded" /\ wrappers'[w].pc = "release"
                  /\ wrappers[w].object # None
DropEnds(w) == wrappers[w].pc = "fields" /\ wrappers'[w].pc = "free"

(* ----------------------------------------------------------------- C1 *)

\* C1: 0 <= len() <= capacity() in every reachable state, and no drop raises an
\* error; a Pooled dropped while the store holds capacity() values leaves the
\* store as it is (len() == capacity()), its value is discarded, nothing panics.
C1_CapacityBound ==
    /\ [](/\ \A s \in StoreIds : Len(stores[s].queue) <= stores[s].cap
          /\ \A h \in Handles : Live(h) => 0 <= len(h) /\ len(h) <= capacity(h)
          /\ "drop" \notin panicked)
    /\ [][\A w \in Wrappers :
            LET s == wrappers[w].pool_inner IN
            (DropReturns(w) /\ Len(stores[s].queue) = stores[s].cap) =>
                /\ stores'[s].queue = stores[s].queue
                /\ wrappers'[w].object = None
                /\ wrappers[w].object[1].id \in Discarded'
                /\ panicked' = panicked]_vars

\* A live pool is full and a value returned to it was discarded.
C1_Witness ==
    \E h \in Handles : Live(h) /\ is_full(h) /\ len(h) = capacity(h) /\ Discarded # {}

(* ----------------------------------------------------------------- C2 *)

\* C2: every value in the store is in its reset state, and so is every value
\* take() or try_take() is handing out, whatever its previous holder wrote to it
\* and whether it was constructed by the pool or attached.
C2_ResetOnReturn ==
    /\ \A s \in StoreIds : \A i \in 1..Len(stores[s].queue) : IsReset(stores[s].queue[i])
    /\ \A w \in Wrappers : wrappers[w].pc = "new" => IsReset(wrappers[w].object[1])

\* try_take is handing out a value that a holder had written to (its buffer is
\* allocated) and that came back reset.
C2_Witness ==
    \E w \in Wrappers : /\ wrappers[w].pc = "new" /\ wrappers[w].op = "try_take"
                         /\ wrappers[w].object[1].cap > 0
                         /\ wrappers[w].object[1].text = ""

(* ----------------------------------------------------------------- C3 *)

\* C3 as stated: once every Pool of the store has been dropped, the drop of a
\* Pooled that is still held skips the return: it goes from the upgrade (line 72)
\* straight to dropping its fields, and so pushes nothing.
C3_NoPushWithoutPool ==
    [][\A w \in Wrappers :
        (DropBegins(w) /\ PoolsOn(wrappers[w].pool_inner) = {}) =>
            wrappers'[w].pc = "fields"]_vars

\* C3, amended: when the store no longer exists as the drop of a held Pooled
\* begins (every Pool was dropped and no drop in progress holds the store), the
\* drop does not panic, pushes nothing, and the value is discarded.
C3_ValuesOutlivePool ==
    /\ []("drop" \notin panicked)
    /\ [][\A w \in Wrappers :
            LET s == wrappers[w].pool_inner IN
            /\ (DropBegins(w) /\ stores[s].strong = 0) =>
                    /\ wrappers'[w].pc = "fields"
                    /\ wrappers'[w].object = wrappers[w].object
                    /\ stores' = stores
                    /\ panicked' = panicked
            /\ (DropEnds(w) /\ wrappers[w].object # None) =>
                    /\ stores[s].strong = 0
                    /\ stores'[s].queue = stores[s].queue
                    /\ wrappers[w].object[1].id \in Discarded'
                    /\ panicked' = panicked]_vars

\* The store is gone and the drop of a Pooled that holds a value has skipped the return.
C3_Witness ==
    \E w \in Wrappers : /\ wrappers[w].pc = "fields" /\ wrappers[w].object # None
                         /\ stores[wrappers[w].pool_inner].strong = 0
                         /\ handles = <<>>

(* ----------------------------------------------------------------- C4 *)

\* C4: when no call is in progress, in_use() is the number of Pooled values made
\* from the store and not yet dropped or detached; when every value constructed
\* so far is held (N takes, nothing dropped), in_use() == N and len() == 0.
C4_InUseCount ==
    Quiescent =>
        \A h \in Handles : Live(h) =>
            /\ in_use(h) = Cardinality(Outstanding(handles[h]))
            /\ (Created = HeldIds /\ Cardinality(Outstanding(handles[h])) = nextObj - 1) =>
                    (in_use(h) = nextObj - 1 /\ len(h) = 0)

\* Two values are out, none was returned, nothing is in progress.
C4_Witness ==
    /\ Quiescent
    /\ \E h \in Handles : Live(h) /\ in_use(h) = 2 /\ len(h) = 0
                            /\ Cardinality(Outstanding(handles[h])) = 2

(* ----------------------------------------------------------------- C5 *)

\* The first step of take and of try_take on Pooled w, the step that ends both
\* (Pooled::new), and attach, as the state shows them.
TakeStep(w) == /\ wrappers[w].pc = "free" /\ wrappers'[w].pc = "new"
               /\ wrappers'[w].op = "take"
TryTakeStep(w) == /\ wrappers[w].pc = "free" /\ wrappers'[w].pc = "new"
                  /\ wrappers'[w].op = "try_take"
NewStep(w) == wrappers[w].pc = "new" /\ wrappers'[w].pc = "held"
AttachStep(w) == wrappers[w].pc = "free" /\ wrappers'[w].pc = "held"
DetachStep(w) == wrappers[w].pc = "held" /\ wrappers'[w].pc = "detaching"

\* C5: take() never fails.  On a non-empty store it removes exactly one stored
\* value (the oldest) and constructs none; on an empty store it returns a newly
\* constructed default value and len() stays 0; either way in_use() goes up by 1.
C5_Take ==
    /\ []("take" \notin panicked)
    /\ [][\A w \in Wrappers :
            LET s == wrappers'[w].pool_inner
                q == stores[s].queue IN
            /\ TakeStep(w) =>
                /\ wrappers'[w].object # None
                /\ stores'[s].weak = stores[s].weak
                /\ IF q # <<>>
                   THEN /\ stores'[s].queue = Tail(q)
                        /\ Len(stores'[s].queue) = Len(q) - 1
                        /\ wrappers'[w].object = Some(Head(q))
                        /\ nextObj' = nextObj
                   ELSE /\ stores'[s].queue = <<>>
                        /\ wrappers'[w].object[1].id \notin Created
                        /\ wrappers'[w].object[1].text = ""
                        /\ wrappers'[w].object[1].cap = 0
                        /\ nextObj' = nextObj + 1
            /\ (NewStep(w) /\ wrappers[w].op = "take") =>
                /\ stores'[s].weak = stores[s].weak + 1
                /\ stores'[s].queue = stores[s].queue
                /\ wrappers'[w].object = wrappers[w].object]_vars

\* take is handing out a value it popped: one whose buffer a holder had allocated.
C5_Witness ==
    \E w \in Wrappers : /\ wrappers[w].pc = "new" /\ wrappers[w].op = "take"
                         /\ wrappers[w].object[1].cap > 0
                         /\ stores[wrappers[w].pool_inner].queue = <<>>

(* ----------------------------------------------------------------- C6 *)

\* C6: try_take() returns absent exactly when the store is empty at its pop, and
\* then constructs nothing and changes neither len() nor in_use(); otherwise it
\* returns the oldest stored value and len() goes down by 1.
C6_TryTake ==
    /\ [](last = "try_take_none" =>
            /\ handles # <<>>
            /\ \A h \in Handles : Live(h) => is_empty(h) /\ len(h) = 0)
    /\ [][/\ (last' = "try_take_none" /\ last # "try_take_none") =>
                /\ \A h \in Handles : Live(h) => is_empty(h)
                /\ stores' = stores /\ wrappers' = wrappers /\ nextObj' = nextObj
                /\ handles' = handles
          /\ \A w \in Wrappers :
                LET s == wrappers'[w].pool_inner
                    q == stores[s].queue IN
                TryTakeStep(w) =>
                    /\ q # <<>>
                    /\ stores'[s].queue = Tail(q)
                    /\ Len(stores'[s].queue) = Len(q) - 1
                    /\ wrappers'[w].object = Some(Head(q))
                    /\ nextObj' = nextObj
                    /\ stores'[s].weak = stores[s].weak]_vars

\* try_take has just returned absent on a capacity-1 pool, after a value that was
\* returned to the store (written, then reset) was handed out again.
C6_Witness ==
    /\ last = "try_take_none"
    /\ \E h \in Handles : Live(h) /\ capacity(h) = 1 /\ is_empty(h)
    /\ \E w \in Wrappers : /\ wrappers[w].pc = "held"
                           /\ wrappers[w].object[1].text = ""
                           /\ wrappers[w].object[1].cap > 0

(* ----------------------------------------------------------------- C7 *)

\* C7: detach returns exactly the value held before the call, not reset; no step
\* of it pushes anything (len() only changes if the store is destroyed); in_use()
\* goes down by 1 when it ends; the detached value is never again in a store or
\* in a Pooled.
C7_Detach ==
    /\ [](\A i \in detached \cup RetIds : i \notin StoredIds \cup HeldIds)
    /\ [][\A w \in Wrappers :
            LET s == wrappers[w].pool_inner IN
            /\ DetachStep(w) =>
                /\ wrappers[w].object # None
                /\ wrappers'[w].ret = wrappers[w].object
                /\ wrappers'[w].object = None
                /\ stores' = stores
            /\ (wrappers[w].ret # None /\ wrappers'[w] # wrappers[w]) =>
                /\ stores'[s].queue = stores[s].queue \/ stores'[s].strong = 0
                /\ Len(stores'[s].queue) <= Len(stores[s].queue)
                /\ IF DropEnds(w)
                   THEN /\ stores'[s].weak = stores[s].weak - 1
                        /\ detached' = detached \cup {wrappers[w].ret[1].id}
                   ELSE /\ stores'[s].weak = stores[s].weak
                        /\ wrappers'[w].ret = wrappers[w].ret]_vars

\* A detach on a live pool is about to return a written value as it was.
C7_Witness ==
    /\ handles # <<>>
    /\ \E w \in Wrappers : /\ wrappers[w].pc = "fields" /\ wrappers[w].ret # None
                           /\ wrappers[w].ret[1].text = "hello"

(* ----------------------------------------------------------------- C8 *)

\* C8: all the Pool values (made by new, clone, get_pool) are on one store, so
\* len, capacity, in_use, is_empty and is_full agree through any two of them;
\* dropping one Pool while another remains leaves the store's contents and
\* counts of Pooled as they are, and the store alive.
C8_ClonesShare ==
    /\ [](\A g, h \in Handles : (Live(g) /\ Live(h)) =>
            /\ handles[g] = handles[h]
            /\ len(g) = len(h) /\ capacity(g) = capacity(h) /\ in_use(g) = in_use(h)
            /\ is_empty(g) = is_empty(h) /\ is_full(g) = is_full(h))
    /\ [][(Len(handles') < Len(handles) /\ handles' # <<>>) =>
            \A s \in StoreIds :
                /\ stores'[s].queue = stores[s].queue
                /\ stores'[s].weak = stores[s].weak
                /\ stores[s].strong > 0 => stores'[s].strong > 0]_vars

\* Two Pools, a value returned to the store: both see it.
C8_Witness ==
    /\ Len(handles) = 2
    /\ len(1) = 1 /\ len(2) = 1 /\ is_full(1) /\ is_full(2)

(* ----------------------------------------------------------------- C9 *)

\* No drop of a Pooled is between its upgrade and the release of its Arc.
NoDropHoldsStore == \A w \in Wrappers : wrappers[w].pc \notin {"upgraded", "release"}

C10_Attach ==
    [][\A w \in Wrappers :
        /\ AttachStep(w) =>
            LET s == wrappers'[w].pool_inner IN
            /\ last' = "attach"
            /\ \A t \in StoreIds : stores'[t].queue = stores[t].queue
            /\ stores'[s].weak = stores[s].weak + 1
            /\ wrappers'[w].object # None
            /\ wrappers'[w].object[1].id \notin Created
            /\ handles' = handles
        /\ DropBegins(w) =>
            (wrappers'[w].pc = "upgraded" <=> stores[wrappers[w].pool_inner].strong > 0)
        /\ DropReturns(w) =>
            LET s == wrappers[w].pool_inner
                q == stores[s].queue
                o == wrappers[w].object[1] IN
            IF Len(q) < stores[s].cap
            THEN /\ Len(stores'[s].queue) = Len(q) + 1
                 /\ SubSeq(stores'[s].queue, 1, Len(q)) = q
                 /\ stores'[s].queue[Len(q) + 1] = [id |-> o.id, text |-> "", cap |-> o.cap]
            ELSE /\ stores'[s].queue = q
                 /\ o.id \in Discarded'
        /\ (DropEnds(w) /\ wrappers[w].object # None) =>
            wrappers[w].object[1].id \in Discarded']_vars

\* attach has just wrapped a written value; the store holds a value and was not touched.
C10_Witness ==
    /\ last = "attach"
    /\ \E h \in Handles : Live(h) /\ len(h) = 1
    /\ \E w \in Wrappers : wrappers[w].pc = "held" /\ wrappers[w].object[1].text = "hello"

(* ---------------------------------------------------------------- C11 *)

\* C11: Pool::new(C) with C > 0 makes a pool with capacity() == C, len() == 0,
\* is_empty(), not is_full() and in_use() == 0, and does not panic; Pool::new(0)
\* panics and makes no pool; the capacity of a store never changes afterwards.
C11_Construction ==
    /\ []("new" \in panicked => (handles = <<>> /\ FreeStores = StoreIds))
    /\ [][/\ \A c \in 0..MaxCap : New(c) =>
                IF c > 0
                THEN /\ Len(handles') = Len(handles) + 1
                     /\ panicked' = panicked
                     /\ \A h \in Handles : (~Live(h) /\ Live(h)') =>
                            /\ capacity(h)' = c
                            /\ len(h)' = 0
                            /\ is_empty(h)'
                            /\ ~is_full(h)'
                            /\ in_use(h)' = 0
                ELSE /\ "new" \in panicked'
                     /\ handles' = handles
                     /\ stores' = stores
          /\ \A s \in StoreIds : stores[s].allocated =>
                (stores'[s].allocated /\ stores'[s].cap = stores[s].cap)]_vars

\* A pool of the largest capacity has just been constructed: nothing was taken
\* from it or attached to it yet.
C11_Witness ==
    /\ Len(handles) = 1 /\ capacity(1) = MaxCap /\ len(1) = 0 /\ in_use(1) = 0
    /\ is_empty(1) /\ ~is_full(1)
    /\ nextObj = 1 /\ panicked = {}

(* ---------------------------------------------------------------- C12 *)

\* C12: at any instant spare_capacity() == capacity() - len() and lies in
\* 0..capacity(), also when capacity() is read one step of another thread before
\* len() (no underflow); is_empty() holds exactly when len() == 0 and is_full()
\* exactly when len() == capacity().  The calls are reads: they are operators of
\* the state and no step belongs to them.
C12_Introspection ==
    /\ [](\A h \in Handles : Live(h) =>
            /\ spare_capacity(h) = capacity(h) - len(h)
            /\ 0 <= spare_capacity(h) /\ spare_capacity(h) <= capacity(h)
            /\ is_empty(h) <=> len(h) = 0
            /\ is_full(h) <=> len(h) = capacity(h)
            /\ is_full(h) <=> spare_capacity(h) = 0)
    /\ [][\A h \in Handles : (Live(h) /\ Live(h)' /\ handles'[h] = handles[h]) =>
            /\ 0 <= capacity(h) - len(h)'
            /\ capacity(h) - len(h)' <= capacity(h)']_vars

\* The store is full (spare_capacity() == 0) while the drop of a Pooled is about
\* to push one more value.
C12_Witness ==
    \E h \in Handles :
        /\ Live(h) /\ is_full(h) /\ ~is_empty(h) /\ spare_capacity(h) = 0
        /\ \E w \in Wrappers : /\ wrappers[w].pc = "upgraded" /\ wrappers[w].object # None
                               /\ wrappers[w].pool_inner = handles[h]

(* ---------------------------------------------------------------- C13 *)

\* The scripted thread runs ConcreteScenario and has run exactly `lines` of it.
InScenario(lines) == script.prog = ConcreteScenario /\ After(lines)

\* C13 as stated: on a pool of capacity 2, after take a, take b, in_use() == 2
\* and len() == 0; after a is written to and dropped, len() == 1; after take c,
\* c is the reset (empty) value, in_use() == 1 and len() == 0.
C13_ScenarioAsStated ==
    /\ InScenario(TwoTaken) => (in_use(1) = 2 /\ len(1) = 0)
    /\ InScenario(OneReturned) => len(1) = 1
    /\ InScenario(ConcreteScenario) =>
        /\ wrappers[1].pc = "held" /\ IsReset(wrappers[1].object[1])
        /\ in_use(1) = 1
        /\ len(1) = 0

\* C13, amended: the same scenario, at whose end b and c are both held, so that
\* in_use() == 2; c is the value a held, reset, its buffer kept.
C13_Scenario ==
    /\ InScenario(TwoTaken) => (in_use(1) = 2 /\ len(1) = 0 /\ capacity(1) = 2)
    /\ InScenario(OneReturned) => (len(1) = 1 /\ in_use(1) = 1)
    /\ InScenario(ConcreteScenario) =>
        /\ wrappers[1].pc = "held" /\ IsReset(wrappers[1].object[1])
        /\ wrappers[1].object[1].text = ""
        /\ wrappers[2].pc = "held"
        /\ in_use(1) = 2
        /\ len(1) = 0

\* The scenario has run to its end: c is the value a had written "hello" to.
C13_Witness ==
    /\ script.prog = ConcreteScenario /\ Done
    /\ wrappers[1].pc = "held" /\ wrappers[1].object[1].id = 1
    /\ wrappers[1].object[1].cap = 5
    /\ wrappers[2].pc = "held" /\ wrappers[2].object[1].id = 2

(* ---------------------------------------------------------------- C14 *)

\* C14 as stated: on a new pool of capacity C, N <= C values each taken and
\* dropped before the next take leave len() == N and in_use() == 0.
C14_RoundsAsStated ==
    \A c \in 1..ScenarioCap : \A n \in 0..c :
        (script.prog = TakeDropRounds(c, n) /\ Done) => (len(1) = n /\ in_use(1) = 0)

\* C14, amended: N values each taken and dropped before the next take leave
\* len() == min(N, 1), every take after the first popping the value the drop
\* before it returned, and in_use() == 0; N <= C values taken and held together,
\* then dropped, leave len() == N and in_use() == 0.
C14_Rounds ==
    /\ \A c \in 1..ScenarioCap : \A n \in 0..ScenarioCap :
            (script.prog = TakeDropRounds(c, n) /\ Done) =>
                /\ len(1) = IF n = 0 THEN 0 ELSE 1
                /\ in_use(1) = 0
                /\ nextObj - 1 = len(1)
    /\ \A c \in 1..ScenarioCap : \A n \in 0..MaxHeld :
            (n <= c /\ script.prog = TakeAllDropAll(c, n) /\ Done) =>
                (len(1) = n /\ in_use(1) = 0)

\* Two values were taken and dropped one after the other on a pool of capacity
\* 2: one value was constructed, and it is the one in the store.
C14_Witness ==
    /\ script.prog = TakeDropRounds(2, 2) /\ Done
    /\ len(1) = 1 /\ in_use(1) = 0 /\ nextObj = 2

(* ---------------------------------------------------------------- C15 *)

\* C15: whatever the other threads do, the next step of every call in progress
\* can be taken at once (no call waits for another thread, no state with a call
\* in progress is a deadlock), and under fair scheduling every call that was
\* started returns.  The calls of one step (clone, drop of a Pool, attach,
\* get_pool, a try_take that finds nothing, the introspection) return in it.
C15_NonBlocking ==
    /\ [](\A w \in Wrappers : InProgress(w) => ENABLED Continue(w))
    /\ \A w \in Wrappers : InProgress(w) ~> ~InProgress(w)

\* The drops of two Pooled values are in progress together, each about to push,
\* on a store with room for one.
C15_Witness ==
    /\ handles # <<>> /\ capacity(1) = 1 /\ is_empty(1)
    /\ \A w \in 1..2 : /\ wrappers[w].pc = "upgraded" /\ wrappers[w].object # None
                        /\ wrappers[w].pool_inner = handles[1]

(* ---------------------------------------------------------------- C16 *)

\* The drops of Pooled values that hold a temporary Arc of store s (lines 72-77).
DropsHolding(s) ==
    {w \in Wrappers : wrappers[w].pc \in {"upgraded", "release"} /\ wrappers[w].pool_inner = s}

\* C16 as stated: in no reachable state does a store exist with zero Pool
\* handles on it, a Pooled being dropped or not.
C16_NoStoreWithoutPool ==
    \A s \in StoreIds : stores[s].strong > 0 => PoolsOn(s) # {}

\* C16, amended: the strong references of a store are its Pool handles and the
\* temporary Arcs of the drops of Pooled values in progress (between upgrade and
\* release); the store is destroyed, with what it holds, when the last of them is
\* dropped.  A Pooled that is held, and not being dropped, never keeps it alive:
\* with zero Pool handles and no such drop in progress the store does not exist.
C16_StoreLifetime ==
    \A s \in StoreIds : stores[s].allocated =>
        /\ stores[s].strong = Cardinality(PoolsOn(s)) + Cardinality(DropsHolding(s))
        /\ (PoolsOn(s) = {} /\ DropsHolding(s) = {}) => stores[s].strong = 0
        /\ stores[s].strong = 0 => stores[s].queue = <<>>

\* Every Pool was dropped; the store is alive only through the Arc of a drop in
\* progress, while another Pooled is still held.
C16_Witness ==
    /\ handles = <<>>
    /\ \E w, v \in Wrappers :
        /\ wrappers[w].pc = "release" /\ wrappers[v].pc = "held"
        /\ wrappers[v].pool_inner = wrappers[w].pool_inner
        /\ stores[wrappers[w].pool_inner].strong = 1
        /\ stores[wrappers[w].pool_inner].queue # <<>>

(* ---------------------------------------------------------------- C17 *)

\* C17: the drop of a Pooled that holds its value discards it only if the store
\* is gone (the upgrade fails) or full at the push; otherwise the push adds
\* exactly that value and len() goes up by 1.  So when k holding Pooled values
\* are dropped concurrently on a live pool, in any interleaving of their steps
\* and with no take among them, len() ends as min(capacity(), initial len() + k).
C17_NoLostReturns ==
    /\ [](\A c \in 1..ScenarioCap : \A l \in 0..MaxHeld : \A k \in 0..2 :
            (k + l <= MaxHeld /\ script.prog \in DropSchedules(c, l, k)) =>
                /\ After(Prepared(c, l, k)) =>
                        (len(1) = Returned(c, l) /\ in_use(1) = k /\ capacity(1) = c)
                /\ Done => (len(1) = Returned(c, Returned(c, l) + k) /\ in_use(1) = 0))
    /\ [](\A c \in 1..ScenarioCap :
            (script.prog = PoolGone(c) /\ Done) =>
                (Discarded = {1} /\ StoredIds = {} /\ panicked = {}))
    /\ [][\A w \in Wrappers :
            LET s == wrappers[w].pool_inner
                q == stores[s].queue IN
            /\ (DropBegins(w) /\ wrappers'[w].pc = "fields") => stores[s].strong = 0
            /\ DropReturns(w) =>
                IF Len(q) < stores[s].cap
                THEN /\ Len(stores'[s].queue) = Len(q) + 1
                     /\ stores'[s].queue[Len(q) + 1].id = wrappers[w].object[1].id
                     /\ SubSeq(stores'[s].queue, 1, Len(q)) = q
                ELSE /\ stores'[s].queue = q
                     /\ wrappers[w].object[1].id \in Discarded'
            /\ (wrappers[w].object # None /\ wrappers[w].object[1].id \in Discarded') =>
                \/ DropReturns(w) /\ Len(q) = stores[s].cap
                \/ DropEnds(w) /\ stores[s].strong = 0]_vars

\* Two Pooled values were dropped at the same time on a pool of capacity 1, both
\* upgrading before either pushed: one value is stored, the other was discarded.
C17_Witness ==
    /\ script.prog = Prepared(1, 0, 2) \o
            << <<"DropUpgrade", 1>>, <<"DropUpgrade", 2>>, <<"DropReturn", 2>>,
               <<"DropReturn", 1>>, <<"DropRelease", 1>>, <<"DropFields", 1>>,
               <<"DropRelease", 2>>, <<"DropFields", 2>> >>
    /\ Done
    /\ len(1) = 1 /\ QueueIds(stores[1].queue) = {2} /\ Discarded = {1}

(* ---------------------------------------------------------------- C18 *)

\* A Pooled is made: by the pop of take or try_take, or by attach.
Made(w) == wrappers[w].pc = "free" /\ wrappers'[w].pc # "free"

\* C18: a Pooled starts holding its value and holds it until one step decides
\* what becomes of it: detach hands it to the caller, or the drop pushes it reset
\* into the store, or the drop discards it (store full, or gone).  After that
\* step the Pooled holds nothing, so no second outcome and no second push can
\* follow, and a value detached is never put into a store.
C18_LifeCycle ==
    /\ [](\A w \in Wrappers :
            /\ wrappers[w].pc \in {"new", "held"} =>
                    (wrappers[w].object # None /\ wrappers[w].ret = None)
            /\ wrappers[w].pc = "detaching" =>
                    (wrappers[w].object = None /\ wrappers[w].ret # None)
            /\ wrappers[w].pc = "upgraded" =>
                    (wrappers[w].object = None <=> wrappers[w].ret # None)
            /\ wrappers[w].pc = "release" => wrappers[w].object = None
            /\ wrappers[w].pc = "fields" =>
                    (wrappers[w].object = None \/ wrappers[w].ret = None)
            /\ wrappers[w].pc = "free" =>
                    (wrappers[w].object = None /\ wrappers[w].ret = None))
    /\ [](\A i \in detached \cup RetIds : i \notin StoredIds)
    /\ [][\A w \in Wrappers :
            LET s == wrappers[w].pool_inner
                q == stores[s].queue IN
            /\ Made(w) => (wrappers'[w].object # None /\ wrappers'[w].ret = None)
            /\ DetachStep(w) =>
                /\ wrappers'[w].ret = wrappers[w].object
                /\ wrappers'[w].object = None
                /\ stores' = stores
            /\ DropReturns(w) =>
                /\ wrappers'[w].object = None
                /\ LET i == wrappers[w].object[1].id IN
                   /\ i \notin StoredIds
                   /\ (i \in StoredIds') # (i \in Discarded')
                   /\ i \in StoredIds' =>
                        /\ stores'[s].queue = Append(q, reset(wrappers[w].object[1]))
                        /\ IsReset(stores'[s].queue[Len(q) + 1])
            /\ (DropEnds(w) /\ wrappers[w].object # None) =>
                /\ wrappers[w].object[1].id \in Discarded'
                /\ stores'[s].queue = q
            /\ (wrappers[w].object = None /\ wrappers[w].pc # "free"
                    /\ wrappers'[w].pc # "free") =>
                /\ wrappers'[w].object = None
                /\ stores'[s].queue = q \/ stores'[s].strong = 0
                        \/ \E v \in Wrappers \ {w} : wrappers'[v] # wrappers[v]
          ]_vars

\* One Pooled is ending detached, its value with the caller, while the drop of
\* another has pushed its value into the store.
C18_Witness ==
    \E w, v \in Wrappers :
        /\ wrappers[w].pc = "fields" /\ wrappers[w].ret # None
        /\ wrappers[v].pc = "release" /\ StoredIds # {}
        /\ wrappers[w].ret[1].id \notin StoredIds

(* ---------------------------------------------------------------- C19 *)

\* C19: in every reachable state each object constructed is in at most one
\* place: one slot of the store, one Pooled, a detach about to return it, or the
\* caller it was detached to; an object in none of them was discarded.  So two
\* take or try_take calls in progress never hold the same object, and an object a
\* Pooled holds is not in the store.
C19_ExclusiveOwnership ==
    /\ \A s \in StoreIds : \A j, k \in 1..Len(stores[s].queue) :
            j # k => stores[s].queue[j].id # stores[s].queue[k].id
    /\ \A s, t \in StoreIds :
            s # t => QueueIds(stores[s].queue) \cap QueueIds(stores[t].queue) = {}
    /\ \A w, v \in Wrappers : w # v =>
            /\ (wrappers[w].object # None /\ wrappers[v].object # None) =>
                    wrappers[w].object[1].id # wrappers[v].object[1].id
            /\ (wrappers[w].ret # None /\ wrappers[v].ret # None) =>
                    wrappers[w].ret[1].id # wrappers[v].ret[1].id
    /\ HeldIds \cap StoredIds = {}
    /\ HeldIds \cap (RetIds \cup detached) = {}
    /\ StoredIds \cap (RetIds \cup detached) = {}
    /\ RetIds \cap detached = {}
    /\ StoredIds \cup HeldIds \cup RetIds \cup detached \subseteq Created

\* Two takes are in progress at once, each between its pop and Pooled::new: one
\* got the value that was stored, the other a new one.
C19_Witness ==
    /\ \A w \in 1..2 : wrappers[w].pc = "new" /\ wrappers[w].op = "take"
    /\ wrappers[1].object[1].id # wrappers[2].object[1].id
    /\ \E w \in 1..2 : wrappers[w].object[1].cap > 0
    /\ StoredIds = {}

(* ---------------------------------------------------------------- C20 *)

\* The Pooled values of store s that own a Weak: from Pooled::new until the
\* fields are dropped, the whole of Drop::drop included.
Counted(s) == {w \in Wrappers : /\ wrappers[w].pool_inner = s
                                 /\ wrappers[w].pc \notin {"free", "new"}}

\* C20: a Pooled counts towards in_use() through every step of its drop, and
\* stops only at the last one, after the push: on a live store that is not full
\* the push makes len() go up by 1 while in_use() stays, and the step that takes
\* the Pooled out of in_use() finds its value pushed already.  So the value is
\* never counted by neither during the drop.
C20_ReturnOrdering ==
    /\ [](\A s \in StoreIds : stores[s].allocated =>
            stores[s].weak = Cardinality(Counted(s)))
    /\ [](\A w \in Wrappers : wrappers[w].pc \in {"upgraded", "release", "fields"} =>
            /\ w \in Counted(wrappers[w].pool_inner)
            /\ stores[wrappers[w].pool_inner].weak >= 1)
    /\ [][\A w \in Wrappers :
            LET s == wrappers[w].pool_inner
                q == stores[s].queue IN
            /\ DropBegins(w) => stores'[s].weak = stores[s].weak
            /\ DropReturns(w) =>
                /\ stores'[s].weak = stores[s].weak
                /\ Len(q) < stores[s].cap =>
                    /\ Len(stores'[s].queue) = Len(q) + 1
                    /\ wrappers[w].object[1].id \in StoredIds'
                    /\ w \in Counted(s)'
            /\ (wrappers[w].pc = "release" /\ wrappers'[w].pc = "fields") =>
                stores'[s].weak = stores[s].weak
            /\ DropEnds(w) =>
                /\ stores'[s].weak = stores[s].weak - 1
                /\ stores'[s].queue = q
                /\ wrappers[w].object = None \/ stores[s].strong = 0]_vars

\* The drop of a Pooled has pushed its value and has not yet dropped its Weak:
\* the value is counted by len() and the Pooled, still, by in_use().
C20_Witness ==
    \E h \in Handles, w \in Wrappers :
        /\ Live(h) /\ wrappers[w].pool_inner = handles[h]
        /\ wrappers[w].pc = "fields" /\ wrappers[w].object = None /\ wrappers[w].ret = None
        /\ len(h) = 1 /\ in_use(h) = 1
        /\ \A v \in Wrappers \ {w} : wrappers[v].pc = "free"

====
